---- MODULE Spec2Model ----
(***************************************************************************)
(* The pure-JS SHA-1 engine of git-sha1.ts (createJs) and the one-shot /   *)
(* streaming entry point sha1().                                           *)
(*                                                                         *)
(* A JavaScript number holding an integer is the triple <<t, m, l>> that   *)
(* stands for t * 2^32 + m * 2^16 + l with 0 <= m, l < 2^16 and t any      *)
(* integer: t = 0 for a value in 0 .. 2^32-1, t = -1 for a negative int32. *)
(* Bitwise operators convert with ToInt32 and return an int32, >>> returns *)
(* a uint32, + is exact (every sum of the program stays below 2^53).       *)
(***************************************************************************)
EXTENDS Integers, Sequences, FiniteSets, TLC

B16 == 2 ^ 16

Num(n) == <<0, n \div B16, n % B16>>

Hex(m, l) == <<0, m, l>>

ToInt32(x) == <<IF x[2] >= 2 ^ 15 THEN -1 ELSE 0, x[2], x[3]>>

ToUint32(x) == <<0, x[2], x[3]>>

Plus(x, y) ==
    LET l == x[3] + y[3]
        m == x[2] + y[2] + (l \div B16)
    IN  <<x[1] + y[1] + (m \div B16), m % B16, l % B16>>

Bit(v, i) == (v \div (2 ^ i)) % 2

And4(a, b) ==
    Bit(a, 0) * Bit(b, 0) + 2 * Bit(a, 1) * Bit(b, 1)
        + 4 * Bit(a, 2) * Bit(b, 2) + 8 * Bit(a, 3) * Bit(b, 3)

\* a & b for two bytes a, b, at index 1 + a * 256 + b of a sequence
AndTab ==
    [k \in 1 .. B16 |->
        16 * And4(((k - 1) \div 256) \div 16, ((k - 1) % 256) \div 16)
            + And4(((k - 1) \div 256) % 16, ((k - 1) % 256) % 16)] \o <<>>

And16(a, b) ==
    256 * AndTab[1 + (a \div 256) * 256 + (b \div 256)]
        + AndTab[1 + (a % 256) * 256 + (b % 256)]

Or16(a, b) == a + b - And16(a, b)

Xor16(a, b) == a + b - 2 * And16(a, b)

\* x & y
BitAnd(x, y) == ToInt32(<<0, And16(x[2], y[2]), And16(x[3], y[3])>>)

\* x | y
BitOr(x, y) == ToInt32(<<0, Or16(x[2], y[2]), Or16(x[3], y[3])>>)

\* x ^ y
BitXor(x, y) == ToInt32(<<0, Xor16(x[2], y[2]), Xor16(x[3], y[3])>>)

\* x << k, 0 <= k <= 31
Shl(x, k) ==
    IF k < 16
    THEN LET l == x[3] * (2 ^ k)
         IN  ToInt32(<<0, (x[2] * (2 ^ k) + (l \div B16)) % B16, l % B16>>)
    ELSE ToInt32(<<0, (x[3] * (2 ^ (k - 16))) % B16, 0>>)

\* x >>> k, 0 <= k <= 31
UShr(x, k) ==
    IF k < 16
    THEN <<0, x[2] \div (2 ^ k),
              (x[3] \div (2 ^ k)) + (x[2] % (2 ^ k)) * (2 ^ (16 - k))>>
    ELSE <<0, 0, x[2] \div (2 ^ (k - 16))>>

\* x >> k, 0 <= k <= 31: the sign bit of ToInt32(x) fills the top k bits
Sar(x, k) ==
    LET u == UShr(x, k)
    IN  IF x[2] < 2 ^ 15 THEN u
        ELSE IF k <= 16
             THEN <<-1, u[2] + B16 - 2 ^ (16 - k), u[3]>>
             ELSE <<-1, B16 - 1, u[3] + B16 - 2 ^ (32 - k)>>

Zero == Num(0)

\* new Uint32Array(80)
NewBlock == [i \in 0 .. 79 |-> Zero]

H0Init == Hex(\H6745, \H2301)
H1Init == Hex(\HEFCD, \HAB89)
H2Init == Hex(\H98BA, \HDCFE)
H3Init == Hex(\H1032, \H5476)
H4Init == Hex(\HC3D2, \HE1F0)

\* The closure createJs(sync) builds while the module's scratch buffer holds
\* mem: the numbers h0 .. h4, offset, shift, totalLength, and block, which is
\* the scratch buffer itself when sync and a buffer of its own otherwise.
\* log and zeroAhead are history, not program state: one entry per
\* processBlock call so far, and whether every write so far found zero in the
\* byte it targets and in the bytes after it.
createJs(sync, mem) ==
    [h0 |-> H0Init, h1 |-> H1Init, h2 |-> H2Init, h3 |-> H3Init, h4 |-> H4Init,
     sync |-> sync, block |-> IF sync THEN mem ELSE NewBlock,
     offset |-> 0, shift |-> 24, totalLength |-> Zero,
     log |-> <<>>, zeroAhead |-> TRUE]

\* One pass of the loop that extends the sixteen words into eighty.
Extend(block, i) ==
    LET w == BitXor(BitXor(BitXor(block[i - 3], block[i - 8]), block[i - 14]),
                    block[i - 16])
    IN  [block EXCEPT ![i] = ToUint32(BitOr(Shl(w, 1), UShr(w, 31)))]

\* for (i = lo; i < hi; i++) Extend.  The range is halved, and the first
\* half is evaluated before the second is entered, so that the evaluation
\* depth stays logarithmic in the number of passes.
RECURSIVE ExtendLoop(_, _, _)
ExtendLoop(block, lo, hi) ==
    IF hi - lo <= 0 THEN block
    ELSE IF hi - lo = 1 THEN Extend(block, lo)
    ELSE LET mid == (lo + hi) \div 2
             first == ExtendLoop(block, lo, mid)
         IN  IF DOMAIN first = 0 .. 79 THEN ExtendLoop(first, mid, hi) ELSE first

\* RoundF with the parity function for rounds 40 .. 59 as well
RoundFParity(i, b, c, d) ==
    IF i < 20 THEN BitXor(d, BitAnd(b, BitXor(c, d)))
    ELSE BitXor(BitXor(b, c), d)

RoundF(i, b, c, d) ==
    IF i < 20 THEN BitXor(d, BitAnd(b, BitXor(c, d)))
    ELSE IF i < 40 THEN BitXor(BitXor(b, c), d)
    ELSE IF i < 60 THEN BitOr(BitAnd(b, c), BitAnd(d, BitOr(b, c)))
    ELSE BitXor(BitXor(b, c), d)

\* RoundK with "<=" for "<" in the first test
RoundKOffByOne(i) ==
    IF i <= 20 THEN Hex(\H5A82, \H7999)
    ELSE IF i < 40 THEN Hex(\H6ED9, \HEBA1)
    ELSE IF i < 60 THEN Hex(\H8F1B, \HBCDC)
    ELSE Hex(\HCA62, \HC1D6)

RoundK(i) ==
    IF i < 20 THEN Hex(\H5A82, \H7999)
    ELSE IF i < 40 THEN Hex(\H6ED9, \HEBA1)
    ELSE IF i < 60 THEN Hex(\H8F1B, \HBCDC)
    ELSE Hex(\HCA62, \HC1D6)

\* One pass of the main loop on v = <<a, b, c, d, e>>; temp is not reduced.
Round(block, v, i) ==
    LET a == v[1]
        b == v[2]
        c == v[3]
        d == v[4]
        e == v[5]
        temp == Plus(Plus(Plus(Plus(BitOr(Shl(a, 5), UShr(a, 27)),
                                    RoundF(i, b, c, d)), e), RoundK(i)),
                     BitOr(block[i], Zero))
    IN  <<temp, a, BitOr(Shl(b, 30), UShr(b, 2)), c, d>>

RECURSIVE MainLoop(_, _, _, _)
MainLoop(block, v, lo, hi) ==
    IF hi - lo <= 0 THEN v
    ELSE IF hi - lo = 1 THEN Round(block, v, lo)
    ELSE LET mid == (lo + hi) \div 2
             first == MainLoop(block, v, lo, mid)
         IN  IF Len(first) = 5 THEN MainLoop(block, first, mid, hi) ELSE first

\* What the log keeps of one processBlock call: the 16 words handed in, the
\* cursor and h0 .. h4 on entry, and the cursor, the 16 words and h0 .. h4 on
\* return.
LogEntry(s, t) ==
    [words |-> [i \in 0 .. 15 |-> s.block[i]],
     hIn |-> <<s.h0, s.h1, s.h2, s.h3, s.h4>>,
     hOut |-> <<t.h0, t.h1, t.h2, t.h3, t.h4>>,
     offsetIn |-> s.offset, shiftIn |-> s.shift,
     offsetOut |-> t.offset, shiftOut |-> t.shift,
     wordsOut |-> [i \in 0 .. 15 |-> t.block[i]]]

Logged(s, t) == [t EXCEPT !.log = Append(@, LogEntry(s, t))]

\* Extend the sixteen 32-bit words into eighty 32-bit words
ExtendBlock(s) == [s EXCEPT !.block = ExtendLoop(@, 16, 80)]

\* Add this chunk's hash v = <<a, b, c, d, e>> to result so far
AddChunk(s, v) ==
    [s EXCEPT !.h0 = BitOr(Plus(@, v[1]), Zero),
              !.h1 = BitOr(Plus(@, v[2]), Zero),
              !.h2 = BitOr(Plus(@, v[3]), Zero),
              !.h3 = BitOr(Plus(@, v[4]), Zero),
              !.h4 = BitOr(Plus(@, v[5]), Zero)]

Compress(s) ==
    AddChunk(s, MainLoop(s.block, <<s.h0, s.h1, s.h2, s.h3, s.h4>>, 0, 80))

\* Reuse with the loop that zeroes block[0 .. 15] left out
ReuseNoClear(s) == [s EXCEPT !.offset = 0]

\* Reuse with "i < 15" for "i < 16" in the clearing loop
ReuseFifteen(s) ==
    [s EXCEPT !.offset = 0,
              !.block = [i \in 0 .. 79 |-> IF i < 15 THEN Zero ELSE @[i]]]

\* The block is now reusable
Reuse(s) ==
    [s EXCEPT !.offset = 0,
              !.block = [i \in 0 .. 79 |-> IF i < 16 THEN Zero ELSE @[i]]]

processBlock(s) == Logged(s, Reuse(Compress(ExtendBlock(s))))

\* the byte of block[offset] that shift selects and the bytes after it in
\* block[offset .. 15] are zero
ZeroFrom(block, offset, shift) ==
    /\ IF shift >= 16
       THEN block[offset][2] % (2 ^ (shift - 8)) = 0 /\ block[offset][3] = 0
       ELSE block[offset][3] % (2 ^ (shift + 8)) = 0
    /\ \A j \in (offset + 1) .. 15 : block[j] = Zero

\* block[offset] |= (byte & 0xff) << shift; byte is a JS number
StoreByte(s, byte) ==
    [s EXCEPT !.block[s.offset] =
                  ToUint32(BitOr(@, Shl(BitAnd(byte, Num(255)), s.shift))),
              !.zeroAhead = @ /\ ZeroFrom(s.block, s.offset, s.shift)]

\* Advance with "shift = 24" left out
AdvanceNoShift(s) ==
    IF s.shift # 0 THEN [s EXCEPT !.shift = @ - 8] ELSE [s EXCEPT !.offset = @ + 1]

\* if (shift) shift -= 8; else { offset++; shift = 24; }
Advance(s) ==
    IF s.shift # 0 THEN [s EXCEPT !.shift = @ - 8]
    ELSE [s EXCEPT !.offset = @ + 1, !.shift = 24]

\* if (offset === 16) processBlock()
\* WhenFull with "offset === 15"
WhenFullEarly(s) == IF s.offset = 15 THEN processBlock(s) ELSE s

WhenFull(s) == IF s.offset = 16 THEN processBlock(s) ELSE s

write(s, byte) == WhenFull(Advance(StoreByte(s, byte)))

\* for (i = lo; i < hi; i++) write(chunk[i]); chunk is 1-based here
RECURSIVE WriteLoop(_, _, _, _)
WriteLoop(s, chunk, lo, hi) ==
    IF hi - lo <= 0 THEN s
    ELSE IF hi - lo = 1 THEN write(s, Num(chunk[lo + 1]))
    ELSE LET mid == (lo + hi) \div 2
             first == WriteLoop(s, chunk, lo, mid)
         IN  IF first.offset < 16 THEN WriteLoop(first, chunk, mid, hi) ELSE first

\* updateString with "totalLength = length * 8"
updateStringAssign(s, units) ==
    LET length == Len(units)
    IN  WriteLoop([s EXCEPT !.totalLength = Num(length * 8)], units, 0, length)

\* updateString(s): units is the sequence of s.charCodeAt(i)
updateString(s, units) ==
    LET length == Len(units)
    IN  WriteLoop([s EXCEPT !.totalLength = Plus(s.totalLength, Num(length * 8))],
                  units, 0, length)

\* update with "totalLength += length" in the array branch
updateArrayUnits(s, chunk) ==
    IF chunk.type = "string" THEN updateString(s, chunk.data)
    ELSE LET length == Len(chunk.data)
         IN  WriteLoop([s EXCEPT !.totalLength = Plus(s.totalLength, Num(length))],
                       chunk.data, 0, length)

\* update(chunk); chunk is [type |-> "string" or "array", data |-> the code
\* units or the numbers]
update(s, chunk) ==
    IF chunk.type = "string" THEN updateString(s, chunk.data)
    ELSE LET length == Len(chunk.data)
         IN  WriteLoop([s EXCEPT !.totalLength =
                                     Plus(s.totalLength, Num(length * 8))],
                       chunk.data, 0, length)

HexDigits == <<"0", "1", "2", "3", "4", "5", "6", "7",
               "8", "9", "a", "b", "c", "d", "e", "f">>

\* n.toString(16) as the sequence of its characters, n an int32 in -15 .. 2^31-1
RECURSIVE ToString16(_)
ToString16(n) ==
    IF n < 0 THEN <<"-">> \o ToString16(0 - n)
    ELSE IF n < 16 THEN <<HexDigits[n + 1]>>
    ELSE ToString16(n \div 16) \o <<HexDigits[(n % 16) + 1]>>

\* the value of a non-negative int32 or small negative int32 as an integer
IntOf(x) == IF x[1] < 0 THEN (x[2] - B16) * B16 + x[3] ELSE x[2] * B16 + x[3]

\* HexDigit with "& 0xf" left out
HexDigitNoMask(word, i) == ToString16(IntOf(Sar(word, i)))

\* ((word >> i) & 0xf).toString(16)
HexDigit(word, i) == ToString16(IntOf(BitAnd(Sar(word, i), Num(15))))

toHex(word) ==
    HexDigit(word, 28) \o HexDigit(word, 24) \o HexDigit(word, 20)
        \o HexDigit(word, 16) \o HexDigit(word, 12) \o HexDigit(word, 8)
        \o HexDigit(word, 4) \o HexDigit(word, 0)

\* x > y for JS numbers
Gt(x, y) ==
    \/ x[1] > y[1]
    \/ x[1] = y[1] /\ x[2] > y[2]
    \/ x[1] = y[1] /\ x[2] = y[2] /\ x[3] > y[3]

\* x / 2^32 and x / 2^40 for 0 <= x < 2^63, without the fraction, which the
\* "byte & 0xff" of write drops (ToInt32 truncates)
Div32(x) == <<0, x[1] \div B16, x[1] % B16>>

Div40(x) == Div32(<<x[1] \div 256, 0, 0>>)

\* for (s = 24; s >= 0; s -= 8) write(totalLength >> s)
RECURSIVE LengthLoop(_, _)
LengthLoop(s, sh) ==
    IF sh < 0 THEN s ELSE LengthLoop(write(s, Sar(s.totalLength, sh)), sh - 8)

\* PadBlock with the test "offset > 14" alone
PadBlockWordOnly(s) ==
    [(IF s.offset > 14 THEN processBlock(s) ELSE s)
        EXCEPT !.offset = 14, !.shift = 24]

\* PadBlock without the call of processBlock
PadBlockNoForce(s) == [s EXCEPT !.offset = 14, !.shift = 24]

\* if (offset > 14 || (offset === 14 && shift < 24)) processBlock();
\* offset = 14; shift = 24
PadBlock(s) ==
    [(IF s.offset > 14 \/ (s.offset = 14 /\ s.shift < 24)
      THEN processBlock(s) ELSE s) EXCEPT !.offset = 14, !.shift = 24]

\* totalLength > 0xffffffffff ? totalLength / 0x10000000000 : 0x00
LengthByte5(totalLength) ==
    IF Gt(totalLength, <<255, B16 - 1, B16 - 1>>) THEN Div40(totalLength) ELSE Zero

\* totalLength > 0xffffffff ? totalLength / 0x100000000 : 0x00
LengthByte4(totalLength) ==
    IF Gt(totalLength, <<0, B16 - 1, B16 - 1>>) THEN Div32(totalLength) ELSE Zero

\* the eight writes of the 64-bit length; no write changes totalLength
WriteLength(s) ==
    LengthLoop(write(write(write(write(s, Zero), Zero),
                           LengthByte5(s.totalLength)),
                     LengthByte4(s.totalLength)), 24)

\* return toHex(h0) + toHex(h1) + toHex(h2) + toHex(h3) + toHex(h4)
Result(s) ==
    [closure |-> s,
     ret |-> toHex(s.h0) \o toHex(s.h1) \o toHex(s.h2) \o toHex(s.h3) \o toHex(s.h4)]

\* digest(): the closure after the call, and the string returned
digest(s) == Result(WriteLength(PadBlock(write(s, Num(128)))))

\* create, outside node (line 15)
create(sync, mem) == createJs(sync, mem)

\* sha1New with create(true)
sha1NewSync(mem) == create(TRUE, mem)

\* sha1(): a streaming hasher
sha1New(mem) == create(FALSE, mem)

\* sha1(buffer) for a string: the digest, and the scratch buffer afterwards
Returned(r) ==
    [ret |-> r.ret, shared |-> r.closure.block, zeroAhead |-> r.closure.zeroAhead]

sha1(buffer, mem) ==
    Returned(digest(update(create(TRUE, mem),
                           [type |-> "string", data |-> buffer])))

(***************************************************************************)
(* The program: the module's scratch buffer, the streaming hashers handed  *)
(* out by sha1(), and the one-shot calls.                                  *)
(***************************************************************************)
VARIABLES
    shared,   \* the module-level Uint32Array(80)
    hs,       \* hasher handed out -> its closure c and the caller's history:
              \* src, the message it is fed; pos, the units fed so far;
              \* calls, the update calls so far (2: two or more); rets, the
              \* strings digest() returned, and hret, h0 .. h4 at each return;
              \* before, the processBlock calls made before the last digest();
              \* late, the calls made after digest() had returned
    shot      \* the last one-shot call: its data, its result (none: <<>>),
              \* dirty: the scratch buffer held an earlier call's words, and
              \* zeroAhead of the hasher it used

vars == <<shared, hs, shot>>

\* Bounds
MaxLen == 66
MaxLate == 1
NumHashers == 2
SessLen == 1
TailLen == 8
MaxBlocks == 2
FrameLen == 131

Hashers == 1 .. NumHashers

Abc == <<97, 98, 99>>

Fox == <<84, 104, 101, 32, 113, 117, 105, 99, 107, 32, 98, 114, 111, 119, 110,
         32, 102, 111, 120, 32, 106, 117, 109, 112, 115, 32, 111, 118, 101,
         114, 32, 116, 104, 101, 32, 108, 97, 122, 121, 32, 100, 111, 103>>

Pat == [k \in 1 .. MaxLen |-> (k * 37 + 91) % 256]

\* the messages one streaming hasher is fed in Spec
StreamMsgs == {Abc, Fox, Pat}

\* the message hasher i is fed in SpecSessions
SessionData(i) == [k \in 1 .. SessLen |-> (150 * k + 61 * i) % 256]

OneShotData == {<<>>, Abc, Fox}

\* the closure as the code sees it: a sync closure's block is the scratch
\* buffer
Enter(c) == IF c.sync THEN [c EXCEPT !.block = shared] ELSE c

Leave(c) == IF c.sync THEN [c EXCEPT !.block = <<>>] ELSE c

SharedAfter(c) == IF c.sync THEN c.block ELSE shared

Fed(h) == SubSeq(h.src, 1, h.pos)

Init ==
    /\ shared = NewBlock
    /\ hs = <<>>
    /\ shot = [data |-> <<>>, ret |-> <<>>, dirty |-> FALSE, zeroAhead |-> TRUE]

\* const h = sha1(), to be fed msg
Create(i, msg) ==
    /\ i \notin DOMAIN hs
    /\ hs' = hs @@ (i :> [c |-> Leave(sha1New(shared)), src |-> msg, pos |-> 0,
                          calls |-> 0, rets |-> <<>>, hret |-> <<>>,
                          before |-> 0, late |-> 0])
    /\ UNCHANGED <<shared, shot>>

\* what the caller keeps of a call to update: n more units fed
AfterUpdate(i, n, late, c) ==
    /\ hs' = [hs EXCEPT ![i].c = Leave(c), ![i].pos = @ + n,
                        ![i].calls = IF @ < 2 THEN @ + 1 ELSE @,
                        ![i].late = @ + late]
    /\ shared' = SharedAfter(c)
    /\ UNCHANGED shot

\* h.update(the next n units of its message), as a string or as an array
CallUpdate(i, n, type, late) ==
    AfterUpdate(i, n, late,
                update(Enter(hs[i].c),
                       [type |-> type,
                        data |-> SubSeq(hs[i].src, hs[i].pos + 1, hs[i].pos + n)]))

\* what the caller keeps of a call to digest: the string returned
AfterDigest(i, late, r) ==
    /\ hs' = [hs EXCEPT ![i].c = Leave(r.closure),
                        ![i].rets = Append(@, r.ret),
                        ![i].hret = Append(@, <<r.closure.h0, r.closure.h1,
                                                r.closure.h2, r.closure.h3,
                                                r.closure.h4>>),
                        ![i].before = Len(hs[i].c.log),
                        ![i].late = @ + late]
    /\ shared' = SharedAfter(r.closure)
    /\ UNCHANGED shot

\* h.digest()
CallDigest(i, late) == AfterDigest(i, late, digest(Enter(hs[i].c)))

Update(i) ==
    /\ i \in DOMAIN hs
    /\ hs[i].rets = <<>>
    /\ \E n \in 0 .. (Len(hs[i].src) - hs[i].pos), type \in {"string", "array"} :
          CallUpdate(i, n, type, 0)

\* h.update of the next unit alone
Feed(i) ==
    /\ i \in DOMAIN hs
    /\ hs[i].rets = <<>>
    /\ hs[i].pos < Len(hs[i].src)
    /\ \E type \in {"string", "array"} : CallUpdate(i, 1, type, 0)

Digest(i) ==
    /\ i \in DOMAIN hs
    /\ hs[i].rets = <<>>
    /\ CallDigest(i, 0)

\* the same calls on a hasher whose digest() has already returned
LateUpdate(i) ==
    /\ i \in DOMAIN hs
    /\ hs[i].rets # <<>>
    /\ hs[i].late < MaxLate
    /\ \E n \in 0 .. 1, type \in {"string", "array"} :
          /\ hs[i].pos + n <= Len(hs[i].src)
          /\ CallUpdate(i, n, type, 1)

LateDigest(i) ==
    /\ i \in DOMAIN hs
    /\ hs[i].rets # <<>>
    /\ hs[i].late < MaxLate
    /\ CallDigest(i, 1)

\* sha1(data)
AfterOneShot(data, r) ==
    /\ shared' = r.shared
    /\ shot' = [data |-> data, ret |-> r.ret, dirty |-> shared # NewBlock,
                zeroAhead |-> r.zeroAhead]
    /\ UNCHANGED hs

OneShot(data) == AfterOneShot(data, sha1(data, shared))

\* One streaming hasher, fed any prefix of one message in any chunks.
Next ==
    \/ \E msg \in StreamMsgs : Create(1, msg)
    \/ Update(1)
    \/ Digest(1)
    \/ LateUpdate(1)
    \/ LateDigest(1)

Spec == Init /\ [][Next]_vars

\* Streaming hashers and one-shot calls, interleaved.
NextSessions ==
    \/ \E i \in Hashers : Create(i, SessionData(i))
    \/ \E i \in Hashers : Feed(i)
    \/ \E i \in Hashers : Digest(i)
    \/ \E data \in OneShotData : OneShot(data)

SpecSessions == Init /\ [][NextSessions]_vars

\* Total bit lengths, each a multiple of 512: 0, 2^32 - 512, 2^32, 2^40 - 512,
\* 2^40, 2^48 - 512, 2^48 and 2^53 - 512.
LengthBases ==
    {<<0, 0, 0>>, <<0, B16 - 1, B16 - 512>>, <<1, 0, 0>>,
     <<255, B16 - 1, B16 - 512>>, <<256, 0, 0>>,
     <<B16 - 1, B16 - 1, B16 - 512>>, <<B16, 0, 0>>,
     <<2 ^ 21 - 1, B16 - 1, B16 - 512>>}

\* A hasher that has been fed a whole number of 64-byte blocks, L bits in
\* all: its block is empty and its cursor at word 0.  The chaining values,
\* which the length field does not depend on, are taken as the initial ones,
\* and log holds the processBlock calls made from here on.
InitLength ==
    /\ shared = NewBlock
    /\ shot = [data |-> <<>>, ret |-> <<>>, dirty |-> FALSE, zeroAhead |-> TRUE]
    /\ \E L \in LengthBases :
          hs = (1 :> [c |-> [createJs(FALSE, NewBlock) EXCEPT !.totalLength = L],
                      src |-> SubSeq(Pat, 1, TailLen), pos |-> 0, calls |-> 0,
                      rets |-> <<>>, hret |-> <<>>, before |-> 0, late |-> 0])

NextLength ==
    \/ Update(1)
    \/ Digest(1)

SpecLength == InitLength /\ [][NextLength]_vars

\* Chaining values on entry to processBlock: the initial ones, and values
\* an earlier pass leaves, which "| 0" makes signed 32-bit: all zero, all
\* -1, all -2^31 and all 2^31 - 1.
ChainInputs ==
    {<<H0Init, H1Init, H2Init, H3Init, H4Init>>,
     [k \in 1 .. 5 |-> Zero],
     [k \in 1 .. 5 |-> <<-1, B16 - 1, B16 - 1>>],
     [k \in 1 .. 5 |-> <<-1, 2 ^ 15, 0>>],
     [k \in 1 .. 5 |-> <<0, 2 ^ 15 - 1, B16 - 1>>]}

\* 64-byte chunks: all 0x00, all 0xff, all 0x80, and two mixed ones.
BlockMsgs ==
    {[k \in 1 .. 64 |-> 0], [k \in 1 .. 64 |-> 255], [k \in 1 .. 64 |-> 128],
     [k \in 1 .. 64 |-> (k * 37 + 91) % 256],
     [k \in 1 .. 64 |-> (k * 201 + 7) % 256]}

\* A hasher on a block boundary with the chaining values h; totalLength and
\* log count from here on.
InitCompress ==
    /\ shared = NewBlock
    /\ shot = [data |-> <<>>, ret |-> <<>>, dirty |-> FALSE, zeroAhead |-> TRUE]
    /\ \E h \in ChainInputs :
          hs = (1 :> [c |-> [createJs(FALSE, NewBlock) EXCEPT
                                !.h0 = h[1], !.h1 = h[2], !.h2 = h[3],
                                !.h3 = h[4], !.h4 = h[5]],
                      src |-> <<>>, pos |-> 0, calls |-> 0,
                      rets |-> <<>>, hret |-> <<>>, before |-> 0, late |-> 0])

\* h.update(msg), msg a whole block: the 64th write calls processBlock
FeedBlock(i, msg) ==
    /\ Len(hs[i].c.log) < MaxBlocks
    /\ hs' = [hs EXCEPT ![i].c = update(@, [type |-> "array", data |-> msg])]
    /\ UNCHANGED <<shared, shot>>

NextCompress == \E msg \in BlockMsgs : FeedBlock(1, msg)

SpecCompress == InitCompress /\ [][NextCompress]_vars

\* A message of more than two blocks, fed in chunks of these sizes.
Long == [k \in 1 .. FrameLen |-> (k * 53 + 17) % 256]

FrameSizes == {0, 3, 64, 128}

UpdateSized(i) ==
    /\ i \in DOMAIN hs
    /\ hs[i].rets = <<>>
    /\ \E n \in FrameSizes, type \in {"string", "array"} :
          /\ hs[i].pos + n <= Len(hs[i].src)
          /\ CallUpdate(i, n, type, 0)

NextFrame ==
    \/ Create(1, Long)
    \/ UpdateSized(1)
    \/ Digest(1)

SpecFrame == Init /\ [][NextFrame]_vars

\* One-shot calls that end in one block, that need a second block for the
\* length, and that fill a block in update.
ScratchData == {Abc, SubSeq(Pat, 1, 56), SubSeq(Pat, 1, 64)}

\* One streaming hasher and one-shot calls on the scratch buffer.
NextScratch ==
    \/ Create(1, Pat)
    \/ UpdateSized(1)
    \/ Digest(1)
    \/ \E data \in ScratchData : OneShot(data)

SpecScratch == Init /\ [][NextScratch]_vars

(***************************************************************************)
(* Properties                                                              *)
(***************************************************************************)

\* a fresh hasher after the single call update(S)
Single(S) == update(createJs(FALSE, NewBlock), [type |-> "array", data |-> S])

\* C1: however the units fed so far were split into update calls, the
\* hasher is in the state of a fresh hasher after one update call with all
\* of them, and digest() returns the string that hasher's digest() returns.
C1_ChunkingIndependence ==
    \A i \in DOMAIN hs :
        /\ hs[i].rets = <<>> => hs[i].c = Single(Fed(hs[i]))
        /\ (Len(hs[i].rets) = 1 /\ hs[i].late = 0)
              => hs[i].rets[1] = digest(Single(Fed(hs[i]))).ret

\* two or more update calls, across a block boundary, then digest()
C1_Witness ==
    \E i \in DOMAIN hs :
        /\ hs[i].calls = 2
        /\ hs[i].pos > 64
        /\ Len(hs[i].rets) = 1
        /\ hs[i].late = 0

\* the bytes the cursor stands for: wordOffset*4 + (3 - byteShift/8)
Partial(c) == c.offset * 4 + (3 - (c.shift \div 8))

ByteAt(bytes, k) == IF k <= Len(bytes) THEN bytes[k] % 256 ELSE 0

\* at most 64 bytes as 16 big-endian words, zero where there is no byte
PackWords(bytes) ==
    [j \in 0 .. 15 |->
        <<0, ByteAt(bytes, 4 * j + 1) * 256 + ByteAt(bytes, 4 * j + 2),
             ByteAt(bytes, 4 * j + 3) * 256 + ByteAt(bytes, 4 * j + 4)>>]

InputWords(c) == [j \in 0 .. 15 |-> c.block[j]]

\* C8: before finalization offset is in 0..15, shift in {24, 16, 8, 0}, the
\* block holds exactly the offset*4 + (3 - shift/8) bytes fed since the last
\* processBlock call and zero elsewhere, and totalLength is 8 times the
\* bytes of the processed blocks plus those.
C8_CursorLength ==
    \A i \in DOMAIN hs :
        hs[i].rets = <<>> =>
            /\ hs[i].c.offset \in 0 .. 15
            /\ hs[i].c.shift \in {24, 16, 8, 0}
            /\ Partial(hs[i].c) = hs[i].pos - 64 * Len(hs[i].c.log)
            /\ InputWords(hs[i].c)
                  = PackWords(SubSeq(hs[i].src, 64 * Len(hs[i].c.log) + 1,
                                     hs[i].pos))
            /\ hs[i].c.totalLength
                  = Num(8 * (64 * Len(hs[i].c.log) + Partial(hs[i].c)))

\* a block has been processed and the cursor stands inside a word
C8_Witness ==
    \E i \in DOMAIN hs :
        /\ hs[i].rets = <<>>
        /\ Len(hs[i].c.log) = 1
        /\ hs[i].c.offset = 0
        /\ hs[i].c.shift = 8

\* L as eight big-endian bytes, for 0 <= L < 2^31
Length64(L) ==
    <<0, 0, 0, 0, (L \div (2 ^ 24)) % 256, (L \div (2 ^ 16)) % 256,
      (L \div (2 ^ 8)) % 256, L % 256>>

\* M || 0x80 || 0x00^k || (8n as a 64-bit big-endian integer), k the smallest
\* number that makes the length a multiple of 64
Padded(M) ==
    M \o <<128>> \o [j \in 1 .. ((64 - ((Len(M) + 9) % 64)) % 64) |-> 0]
      \o Length64(8 * Len(M))

\* the split into 64-byte blocks, each as 16 words
Blocks(P) ==
    [b \in 1 .. (Len(P) \div 64) |-> PackWords(SubSeq(P, 64 * (b - 1) + 1, 64 * b))]

\* C3: over the life of a hasher fed M (n bytes) and finalized, the blocks
\* handed to processBlock are the 64-byte blocks of the padded message, and
\* digest() itself processes one block when n mod 64 <= 55 and two otherwise.
C3_Padding ==
    \A i \in DOMAIN hs :
        (Len(hs[i].rets) = 1 /\ hs[i].late = 0) =>
            /\ [b \in 1 .. Len(hs[i].c.log) |-> hs[i].c.log[b].words]
                  = Blocks(Padded(Fed(hs[i])))
            /\ Len(hs[i].c.log) - hs[i].before
                  = IF hs[i].pos % 64 <= 55 THEN 1 ELSE 2

\* digest() after 56 bytes: the length field does not fit the block
C3_Witness ==
    \E i \in DOMAIN hs :
        /\ Len(hs[i].rets) = 1
        /\ hs[i].late = 0
        /\ hs[i].pos = 56
        /\ Len(hs[i].c.log) = 2

HexChars == {HexDigits[k] : k \in 1 .. 16}

\* the 32 bits of a word as 8 hex digits, most significant nibble first
Hex8(x) ==
    <<HexDigits[(x[2] \div 4096) + 1], HexDigits[((x[2] \div 256) % 16) + 1],
      HexDigits[((x[2] \div 16) % 16) + 1], HexDigits[(x[2] % 16) + 1],
      HexDigits[(x[3] \div 4096) + 1], HexDigits[((x[3] \div 256) % 16) + 1],
      HexDigits[((x[3] \div 16) % 16) + 1], HexDigits[(x[3] % 16) + 1]>>

\* C5: every string digest() returns has 40 characters, each in [0-9a-f],
\* and is h0, h1, h2, h3, h4 in that order, each as 8 hex digits, most
\* significant nibble first, whatever the sign of the stored word.
C5_OutputShape ==
    \A i \in DOMAIN hs :
        \A k \in 1 .. Len(hs[i].rets) :
            /\ Len(hs[i].rets[k]) = 40
            /\ \A j \in 1 .. Len(hs[i].rets[k]) : hs[i].rets[k][j] \in HexChars
            /\ hs[i].rets[k]
                  = Hex8(hs[i].hret[k][1]) \o Hex8(hs[i].hret[k][2])
                      \o Hex8(hs[i].hret[k][3]) \o Hex8(hs[i].hret[k][4])
                      \o Hex8(hs[i].hret[k][5])

\* digest() returned with h0 negative and h1 not
C5_Witness ==
    \E i \in DOMAIN hs :
        /\ Len(hs[i].rets) = 1
        /\ hs[i].hret[1][1][1] = -1
        /\ hs[i].hret[1][2][1] = 0

C4_FinalizationTerminal ==
    \A i \in DOMAIN hs :
        /\ hs[i].late = 0
        /\ \A k \in 1 .. Len(hs[i].rets) : hs[i].rets[k] = hs[i].rets[1]

\* the digest of S by a fresh streaming hasher with a buffer of its own
Alone(S) == digest(Single(S)).ret

DigestEmpty ==
    <<"d", "a", "3", "9", "a", "3", "e", "e", "5", "e",
      "6", "b", "4", "b", "0", "d", "3", "2", "5", "5",
      "b", "f", "e", "f", "9", "5", "6", "0", "1", "8",
      "9", "0", "a", "f", "d", "8", "0", "7", "0", "9">>

DigestAbc ==
    <<"a", "9", "9", "9", "3", "e", "3", "6", "4", "7",
      "0", "6", "8", "1", "6", "a", "b", "a", "3", "e",
      "2", "5", "7", "1", "7", "8", "5", "0", "c", "2",
      "6", "c", "9", "c", "d", "0", "d", "8", "9", "d">>

DigestFox ==
    <<"2", "f", "d", "4", "e", "1", "c", "6", "7", "a",
      "2", "d", "2", "8", "f", "c", "e", "d", "8", "4",
      "9", "e", "e", "1", "b", "b", "7", "6", "e", "7",
      "3", "9", "1", "b", "9", "3", "e", "b", "1", "2">>

\* C2: sha1("") is da39a3ee5e6b4b0d3255bfef95601890afd80709, sha1("abc") is
\* a9993e364706816aba3e25717850c26c9cd0d89d, and sha1("The quick brown fox
\* jumps over the lazy dog") is 2fd4e1c67a2d28fced849ee1bb76e7391b93eb12.
C2_KnownAnswers ==
    shot.ret # <<>> =>
        /\ shot.data = <<>> => shot.ret = DigestEmpty
        /\ shot.data = Abc => shot.ret = DigestAbc
        /\ shot.data = Fox => shot.ret = DigestFox

\* sha1 of the fox sentence has returned, on a scratch buffer used before
C2_Witness == shot.ret # <<>> /\ shot.data = Fox /\ shot.dirty

AloneOneShot == [d \in OneShotData |-> Alone(d)] @@ <<>>

AloneSession ==
    [i \in Hashers |->
        [p \in 0 .. SessLen |-> Alone(SubSeq(SessionData(i), 1, p))] @@ <<>>] @@ <<>>

\* C6: the one-shot sha1(S) returns, whatever the scratch buffer holds from
\* the calls before it, the digest a fresh streaming hasher with a buffer of
\* its own returns for S; and so does every streaming hasher fed S, whatever
\* was hashed before or in between.
C6_Determinism ==
    /\ shot.ret # <<>> => shot.ret = AloneOneShot[shot.data]
    /\ \A i \in DOMAIN hs :
          hs[i].rets # <<>> => hs[i].rets[1] = AloneSession[i][hs[i].pos]

\* sha1("abc") has returned, on a scratch buffer an earlier call has used
C6_Witness == shot.ret # <<>> /\ shot.data = Abc /\ shot.dirty

\* C7: whatever calls on other hashers and one-shot calls come in between,
\* no streaming hasher uses the scratch buffer, each is in the state its own
\* calls alone lead to, and each returns the digest of what it was fed.
C7_SessionIndependence ==
    \A i \in DOMAIN hs :
        /\ ~hs[i].c.sync
        /\ hs[i].rets = <<>> => hs[i].c = Single(Fed(hs[i]))
        /\ hs[i].rets # <<>> => hs[i].rets[1] = AloneSession[i][hs[i].pos]

\* two hashers, each fed its message and finalized, and a one-shot call
C7_Witness ==
    /\ shot.ret # <<>>
    /\ \E i, j \in DOMAIN hs :
          /\ i # j
          /\ hs[i].pos = SessLen /\ hs[i].rets # <<>>
          /\ hs[j].pos = SessLen /\ hs[j].rets # <<>>

\* C10 as claimed: word 14 of the final block is floor(L / 2^32) and word 15
\* is L mod 2^32, L the total bit length (here L < 2^53).
C10_LengthField ==
    \A i \in DOMAIN hs :
        (Len(hs[i].rets) = 1 /\ hs[i].late = 0) =>
            /\ hs[i].c.log[Len(hs[i].c.log)].words[14]
                  = <<0, hs[i].c.totalLength[1] \div B16,
                         hs[i].c.totalLength[1] % B16>>
            /\ hs[i].c.log[Len(hs[i].c.log)].words[15]
                  = <<0, hs[i].c.totalLength[2], hs[i].c.totalLength[3]>>

\* The reference compression function, on words <<m, l>> = m * 2^16 + l,
\* every sum reduced modulo 2^32.
W32(x) == <<x[2], x[3]>>

RefAdd(x, y) ==
    <<(x[1] + y[1] + ((x[2] + y[2]) \div B16)) % B16, (x[2] + y[2]) % B16>>

\* rotate left by k, 1 <= k <= 15
RefRotl(x, k) ==
    <<((x[1] * (2 ^ k)) % B16) + (x[2] \div (2 ^ (16 - k))),
      ((x[2] * (2 ^ k)) % B16) + (x[1] \div (2 ^ (16 - k)))>>

RefRotl30(x) == RefRotl(<<x[2], x[1]>>, 14)

RefXor(x, y) == <<Xor16(x[1], y[1]), Xor16(x[2], y[2])>>

RefAnd(x, y) == <<And16(x[1], y[1]), And16(x[2], y[2])>>

RefOr(x, y) == <<Or16(x[1], y[1]), Or16(x[2], y[2])>>

RefNot(x) == <<B16 - 1 - x[1], B16 - 1 - x[2]>>

RefCh(b, c, d) == RefOr(RefAnd(b, c), RefAnd(RefNot(b), d))

RefParity(b, c, d) == RefXor(RefXor(b, c), d)

RefMaj(b, c, d) == RefOr(RefOr(RefAnd(b, c), RefAnd(b, d)), RefAnd(c, d))

RefF(i, b, c, d) ==
    CASE i \in 0 .. 19 -> RefCh(b, c, d)
      [] i \in 20 .. 39 -> RefParity(b, c, d)
      [] i \in 40 .. 59 -> RefMaj(b, c, d)
      [] i \in 60 .. 79 -> RefParity(b, c, d)

RefK(i) ==
    CASE i \in 0 .. 19 -> <<\H5A82, \H7999>>
      [] i \in 20 .. 39 -> <<\H6ED9, \HEBA1>>
      [] i \in 40 .. 59 -> <<\H8F1B, \HBCDC>>
      [] i \in 60 .. 79 -> <<\HCA62, \HC1D6>>

\* w[i] = rotl1(w[i-3] xor w[i-8] xor w[i-14] xor w[i-16]) for i in lo .. hi-1
RECURSIVE RefSchedule(_, _, _)
RefSchedule(w, lo, hi) ==
    IF hi - lo <= 0 THEN w
    ELSE IF hi - lo = 1
    THEN w @@ (lo :> RefRotl(RefXor(RefXor(RefXor(w[lo - 3], w[lo - 8]),
                                           w[lo - 14]), w[lo - 16]), 1))
    ELSE LET mid == (lo + hi) \div 2
             first == RefSchedule(w, lo, mid)
         IN  IF DOMAIN first = 0 .. (mid - 1) THEN RefSchedule(first, mid, hi)
             ELSE first

RefRound(w, v, i) ==
    <<RefAdd(RefAdd(RefAdd(RefAdd(RefRotl(v[1], 5), RefF(i, v[2], v[3], v[4])),
                           v[5]), RefK(i)), w[i]),
      v[1], RefRotl30(v[2]), v[3], v[4]>>

RECURSIVE RefRounds(_, _, _, _)
RefRounds(w, v, lo, hi) ==
    IF hi - lo <= 0 THEN v
    ELSE IF hi - lo = 1 THEN RefRound(w, v, lo)
    ELSE LET mid == (lo + hi) \div 2
             first == RefRounds(w, v, lo, mid)
         IN  IF Len(first) = 5 THEN RefRounds(w, first, mid, hi) ELSE first

RefSum(h, v) == [k \in 1 .. 5 |-> RefAdd(h[k], v[k])]

RefCompress(h, words) == RefSum(h, RefRounds(RefSchedule(words, 16, 80), h, 0, 80))

Words32(f) == [k \in DOMAIN f |-> W32(f[k])]

\* C11: each processBlock call leaves h0 .. h4 congruent modulo 2^32 to the
\* reference SHA-1 compression of the h0 .. h4 and the 16 words it was given,
\* the reference reducing every sum and using (b and c) or (not b and d) for
\* rounds 0 .. 19, which equals d xor (b and (c xor d)) for all b, c, d.
C11_Compression ==
    /\ \A i \in DOMAIN hs :
          \A k \in 1 .. Len(hs[i].c.log) :
              Words32(hs[i].c.log[k].hOut)
                  = RefCompress(Words32(hs[i].c.log[k].hIn),
                                Words32(hs[i].c.log[k].words))
    /\ \A b, c, d \in {0, 1, B16 - 2, B16 - 1} :
          Xor16(d, And16(b, Xor16(c, d)))
              = Or16(And16(b, c), And16(B16 - 1 - b, d))

\* processBlock has run twice on one hasher, the second time from negative
\* chaining values and with a first temp of more than 32 bits
C11_Witness ==
    \E i \in DOMAIN hs :
        /\ Len(hs[i].c.log) = 2
        /\ hs[i].c.log[2].hIn[1][1] < 0
        /\ Round(hs[i].c.log[2].words, hs[i].c.log[2].hIn, 0)[1][1] > 0

HashState(c) == <<c.h0, c.h1, c.h2, c.h3, c.h4>>

\* the processBlock calls a step of hasher i has made
NewCalls(i) == (Len(hs[i].c.log) + 1) .. Len(hs'[i].c.log)

\* h0 .. h4 go from call to call of processBlock, and nothing else touches
\* them
OnlyProcessBlock(i) ==
    /\ \A k \in NewCalls(i) :
          hs'[i].c.log[k].hIn = IF k = Len(hs[i].c.log) + 1
                                THEN HashState(hs[i].c)
                                ELSE hs'[i].c.log[k - 1].hOut
    /\ HashState(hs'[i].c) = IF NewCalls(i) = {} THEN HashState(hs[i].c)
                             ELSE hs'[i].c.log[Len(hs'[i].c.log)].hOut

\* an update call of m = pos' - pos bytes, p bytes buffered at its start
UpdateFrame(i) ==
    /\ Cardinality(NewCalls(i))
          = (Partial(hs[i].c) + (hs'[i].pos - hs[i].pos)) \div 64
    /\ \A k \in NewCalls(i) :
          /\ hs'[i].c.log[k].offsetIn = 16
          /\ hs'[i].c.log[k].shiftIn = 24
          /\ hs'[i].c.log[k].hOut # hs'[i].c.log[k].hIn

FrameStep ==
    \A i \in DOMAIN hs :
        /\ OnlyProcessBlock(i)
        /\ hs'[i].rets = <<>> => UpdateFrame(i)

\* C12: in every step h0 .. h4 are changed by processBlock alone; an update
\* call of m bytes with p bytes buffered calls it floor((p + m) / 64) times,
\* each time right after the last byte of word 15 is written and each time
\* changing h0 .. h4, so not at all when no 64th byte is written.
C12_HashFrame == [][FrameStep]_vars

\* one update call of 128 bytes has changed h0 .. h4 twice
C12_Witness ==
    \E i \in DOMAIN hs :
        /\ hs[i].rets = <<>>
        /\ hs[i].calls = 1
        /\ hs[i].pos = 128
        /\ Len(hs[i].c.log) = 2
        /\ hs[i].c.log[2].hOut = HashState(hs[i].c)
        /\ hs[i].c.log[1].hOut # hs[i].c.log[2].hOut

\* the units of hasher i's message from pos + 1 to pos + n
Ahead(i, n) == SubSeq(hs[i].src, hs[i].pos + 1, hs[i].pos + n)

AsString(c, units) == update(c, [type |-> "string", data |-> units])

AsArray(c, units) == update(c, [type |-> "array", data |-> units])

\* update(units) adds 8 bits and one byte for each unit: the bytes in the
\* blocks processed since c and in the partial block are those of c plus n
CountsUnits(c, t, n) ==
    /\ t.totalLength = Plus(c.totalLength, Num(8 * n))
    /\ 64 * (Len(t.log) - Len(c.log)) + Partial(t) = Partial(c) + n

\* C13: from every state of a hasher, update with a string and update with
\* the array of the same code units (0 .. 255) lead to the same state, each
\* unit adding one byte and 8 bits to totalLength; checked for no unit, the
\* next unit alone, and all the units left of the message.
C13_StringArray ==
    \A i \in DOMAIN hs :
        \A n \in {0, 1, Len(hs[i].src) - hs[i].pos} :
            n <= Len(hs[i].src) - hs[i].pos =>
                /\ AsString(hs[i].c, Ahead(i, n)) = AsArray(hs[i].c, Ahead(i, n))
                /\ CountsUnits(hs[i].c, AsString(hs[i].c, Ahead(i, n)), n)

\* a hasher in the middle of a word after two calls, with units left that
\* fill the block: both forms of the next call run processBlock
C13_Witness ==
    \E i \in DOMAIN hs :
        /\ hs[i].rets = <<>>
        /\ hs[i].calls = 2
        /\ hs[i].pos = 2
        /\ Len(hs[i].src) = MaxLen
        /\ Len(AsString(hs[i].c, Ahead(i, MaxLen - 2)).log) = 1
        /\ Len(AsArray(hs[i].c, Ahead(i, MaxLen - 2)).log) = 1

\* C14: every write so far, of a streaming hasher on its own buffer and of
\* the one-shot calls on the scratch buffer, found zero in the byte it
\* targets and in every later byte of words 0 .. 15, and words 0 .. 15 of the
\* scratch buffer are zero between calls, so when a one-shot call starts and
\* when it returns.
C14_ZeroAhead ==
    /\ \A i \in DOMAIN hs : hs[i].c.zeroAhead
    /\ shot.zeroAhead
    /\ \A j \in 0 .. 15 : shared[j] = Zero

\* a one-shot call that needs a second block for the length has returned, on
\* a scratch buffer used before, and a streaming hasher has been finalized
\* from the middle of word 15
C14_Witness ==
    /\ shot.ret # <<>> /\ shot.dirty /\ Len(shot.data) = 56
    /\ shared # NewBlock
    /\ \E i \in DOMAIN hs :
          hs[i].pos = 60 /\ Len(hs[i].rets) = 1 /\ Len(hs[i].c.log) = 2

====
